---- MODULE Spec2Model ----
(***************************************************************************)
(* Escrow contract for timed advisor/learner rooms (src/src/lib.rs).       *)
(* The state is the Contract struct, the clock read by Contract::now, the  *)
(* staking queries still in flight, and a record of the last invocation    *)
(* (its arguments, whether it was accepted, and the outbound calls it      *)
(* issued).  A panicking invocation changes nothing and issues nothing:    *)
(* the host discards the state writes and promises of a failed receipt.    *)
(***************************************************************************)
EXTENDS Integers, Sequences, FiniteSets, TLC

\* ---------------------------------------------------------------- bounds
MaxTime == 1
MaxRate == 2
MaxMinutes == 1
MaxNegMinutes == 1
MaxAmount == 1
MaxDeposit == 1
MaxVote == 1
MaxStaked == 2
MaxMinutesLast == 2
MaxPendingAmount == 3

\* ------------------------------------------------------- program constants
ONE_YOCTO == 1
FeeNumerator == 95
FeeDenominator == 100
\* 2^128 = 100 * floor(2^128 / 100) + 56
U128ModRem100 == 56

RoomIds == {1}
Accounts == {"alice", "bob"}
Advisors == {"alice"}
Owner == "owner"
TokenAddress == "token"
StakingAddress == "staking"
Rates == 0..MaxRate
Minutes == (0 - MaxNegMinutes)..MaxMinutes
Amounts == 1..MaxAmount
Deposits == 0..MaxDeposit
Votes == 1..MaxVote
Messages == {"create_room", "extend_room", "other"}
Keys == {"k1", "k2"}
UndecodableKey == "not-base58"

\* Option<T>: the empty set is None, a singleton is Some(v)
None == {}
Some(v) == {v}
Opt(S) == {None} \cup {Some(v) : v \in S}
Unwrap(o) == CHOOSE v \in o : TRUE

\* A signature is either a byte string that is not 64 bytes long, or the
\* ed25519 signature that `key` produces over the bytes of account `msg`.
MalformedSignature == [wellformed |-> FALSE, key |-> "", msg |-> ""]

\* owner .. room_list   the fields of Contract
\* now                  the clock read by Contract::now, in seconds
\* overflow_checks      whether the build panics on integer overflow (TRUE) or
\*                      wraps (FALSE); fixed for the life of the contract
\* staking_queries      advisors whose get_staked_amount promise awaits its callback
\* last                 the last invocation and whether it was accepted
\* calls                the outbound calls the last invocation issued
VARIABLES
    owner, staking_address, token_address, verified_amount, room_list,
    now, overflow_checks, staking_queries, last, calls

vars == <<owner, staking_address, token_address, verified_amount, room_list,
          now, overflow_checks, staking_queries, last, calls>>

config == <<owner, staking_address, token_address, verified_amount, overflow_checks>>

\* ------------------------------------------------------ u128 arithmetic
\* A u128 is held as its centred representative modulo 2^128: x >= 0 stands
\* for the value x, x < 0 stands for 2^128 + x.  Every non-negative value of
\* the model is far below 2^64, so two of them never overflow.
U128MulOverflows(a, b) ==
    IF a >= 0 /\ b >= 0 THEN FALSE
    ELSE IF a < 0 /\ b < 0 THEN TRUE
    ELSE (IF a < 0 THEN b ELSE a) >= 2

U128AddOverflows(a, b) ==
    IF a >= 0 /\ b >= 0 THEN FALSE
    ELSE IF a < 0 /\ b < 0 THEN TRUE
    ELSE a + b >= 0

\* `m as u128` on an i64 sign-extends: -1 becomes 2^128 - 1
CastI64ToU128(m) == m

\* the quotient of a u128 by 100, as q * floor(2^128 / 100) + r
Plain(n) == [q |-> 0, r |-> n]
U128Div100(x) ==
    IF x >= 0 THEN Plain(x \div FeeDenominator)
    ELSE [q |-> 1, r |-> (U128ModRem100 + x) \div FeeDenominator]

\* ------------------------------------------------------------- results
NoCall == [contract |-> "", method |-> "", account |-> "", amount |-> Plain(0), vote |-> 0]

Rejected(reason) ==
    [ok |-> FALSE, reason |-> reason, rooms |-> room_list, calls |-> <<>>, queries |-> {}]

Accepted(rooms, issued, queries) ==
    [ok |-> TRUE, reason |-> "", rooms |-> rooms, calls |-> issued, queries |-> queries]

UnwrapNone == "called Option::unwrap() on a None value"
MulOverflow == "attempt to multiply with overflow"
AddOverflow == "attempt to add with overflow"

contains_key(rooms, id) == id \in DOMAIN rooms

insert(rooms, id, room) ==
    [x \in DOMAIN rooms \cup {id} |-> IF x = id THEN room ELSE rooms[x]]

NotOneYocto == "Requires attached deposit of exactly 1 yoctoNEAR"
RoomNotExisted == "App: Room not existed!"
InvalidLearner == "App: Invalid learner!"
AlreadyClaimed == "App: Already claimed!"
AlreadyReverted == "App: Already reverted!"
RoomAlreadyEnded == "App: Room already ended!"
StakingError == "There was an error contacting staking contract"
NotAnAdvisor == "App: Not an advisor!"

\* ------------------------------------------------------ outbound calls
get_staked_amount(contract, _advisor_id) ==
    [contract |-> contract, method |-> "get_staked_amount", account |-> _advisor_id,
     amount |-> Plain(0), vote |-> 0]

update_apr(contract, _advisor_id, _learner_vote) ==
    [contract |-> contract, method |-> "update_apr", account |-> _advisor_id,
     amount |-> Plain(0), vote |-> _learner_vote]

ft_transfer(contract, receiver_id, amount) ==
    [contract |-> contract, method |-> "ft_transfer", account |-> receiver_id,
     amount |-> amount, vote |-> 0]

\* Contract::query_staked_amount: the query goes to ext(self.token_address)
query_staked_amount(_advisor_id) == get_staked_amount(token_address, _advisor_id)

\* Contract::verify: fatal on a malformed signature or an undecodable key,
\* otherwise whether the signature is the signer key's over the account id
verify(_signature, _signer_public_key, _account_id) ==
    IF ~_signature.wellformed THEN [fatal |-> TRUE, value |-> FALSE]
    ELSE IF _signer_public_key = UndecodableKey THEN [fatal |-> TRUE, value |-> FALSE]
    ELSE [fatal |-> FALSE,
          value |-> _signature.key = _signer_public_key /\ _signature.msg = _account_id]

\* ------------------------------------------------------- ft_on_transfer
new_room(_advisor, sender_id, _amount_per_minute, _minutes_lasts, _pending_amount) ==
    [advisor |-> _advisor, learner |-> sender_id, start_time |-> now,
     amount_per_minute |-> _amount_per_minute, minutes_last |-> _minutes_lasts,
     pending_amount |-> _pending_amount, claimed |-> FALSE, reverted |-> FALSE]

create_room_without_insert(sender_id, _advisor, _amount_per_minute, _room_id, _minutes_lasts) ==
    IF _advisor = None THEN Rejected(UnwrapNone)
    ELSE IF _minutes_lasts = None THEN Rejected(UnwrapNone)
    ELSE IF overflow_checks
            /\ U128MulOverflows(_amount_per_minute, CastI64ToU128(Unwrap(_minutes_lasts)))
    THEN Rejected(MulOverflow)
    ELSE Accepted(room_list, <<query_staked_amount(Unwrap(_advisor))>>, {Unwrap(_advisor)})

create_room(sender_id, _advisor, _amount_per_minute, _room_id, _minutes_lasts) ==
    IF _advisor = None THEN Rejected(UnwrapNone)
    ELSE IF _minutes_lasts = None THEN Rejected(UnwrapNone)
    ELSE LET minutes == Unwrap(_minutes_lasts)
             factor == CastI64ToU128(minutes)
         IN  IF overflow_checks /\ U128MulOverflows(_amount_per_minute, factor)
             THEN Rejected(MulOverflow)
             ELSE Accepted(
                      insert(room_list, _room_id,
                             new_room(Unwrap(_advisor), sender_id, _amount_per_minute,
                                      minutes, _amount_per_minute * factor)),
                      <<query_staked_amount(Unwrap(_advisor))>>,
                      {Unwrap(_advisor)})

extend_room_any_sender(sender_id, room) == TRUE

extend_room_learner_or_advisor(sender_id, room) ==
    sender_id = room.learner \/ sender_id = room.advisor

extend_room_sender_ok(sender_id, room) == sender_id = room.learner

extended_room_stored_rate(room, _amount_per_minute, minutes) ==
    [room EXCEPT !.minutes_last = @ + minutes,
                 !.pending_amount = @ + room.amount_per_minute * CastI64ToU128(minutes)]

extended_room(room, _amount_per_minute, minutes) ==
    [room EXCEPT !.minutes_last = @ + minutes,
                 !.pending_amount = @ + _amount_per_minute * CastI64ToU128(minutes)]

extend_room(sender_id, _amount_per_minute, _room_id, _minutes_lasts) ==
    IF ~contains_key(room_list, _room_id) THEN Rejected(UnwrapNone)
    ELSE LET room == room_list[_room_id] IN
         IF ~extend_room_sender_ok(sender_id, room) THEN Rejected(InvalidLearner)
         ELSE IF _minutes_lasts = None THEN Rejected(UnwrapNone)
         ELSE LET minutes == Unwrap(_minutes_lasts)
                  factor == CastI64ToU128(minutes)
              IN  IF overflow_checks /\ U128MulOverflows(_amount_per_minute, factor)
                  THEN Rejected(MulOverflow)
                  ELSE IF overflow_checks
                          /\ U128AddOverflows(room.pending_amount, _amount_per_minute * factor)
                  THEN Rejected(AddOverflow)
                  ELSE Accepted(
                           insert(room_list, _room_id,
                                  extended_room(room, _amount_per_minute, minutes)),
                           <<>>, {})

ft_on_transfer(sender_id, amount, msg, _advisor, _amount_per_minute, _room_id, _minutes_lasts) ==
    IF _amount_per_minute = None \/ _room_id = None THEN Rejected(UnwrapNone)
    ELSE IF msg = "create_room"
         THEN create_room(sender_id, _advisor, Unwrap(_amount_per_minute),
                          Unwrap(_room_id), _minutes_lasts)
    ELSE IF msg = "extend_room"
         THEN extend_room(sender_id, Unwrap(_amount_per_minute), Unwrap(_room_id),
                          _minutes_lasts)
    ELSE Accepted(room_list, <<>>, {})

\* -------------------------------------------------------------- end_room
assert_one_yocto(deposit) == deposit = ONE_YOCTO

claim_payout_divide_first(room) ==
    Plain((room.pending_amount \div FeeDenominator) * FeeNumerator)

\* room.pending_amount * 95 / 100
claim_payout(room) == U128Div100(room.pending_amount * FeeNumerator)

end_room(deposit, _room_id, _learner_vote, _signature, _signer, signer_account_id) ==
    IF ~assert_one_yocto(deposit) THEN Rejected(NotOneYocto)
    ELSE IF ~contains_key(room_list, _room_id) THEN Rejected(RoomNotExisted)
    ELSE LET room == room_list[_room_id] IN
         IF room.claimed # FALSE THEN Rejected(AlreadyClaimed)
         ELSE IF room.reverted # FALSE THEN Rejected(AlreadyReverted)
         ELSE IF overflow_checks /\ U128MulOverflows(room.pending_amount, FeeNumerator)
         THEN Rejected(MulOverflow)
         ELSE Accepted(
                  insert(room_list, _room_id, [room EXCEPT !.claimed = TRUE]),
                  <<update_apr(token_address, signer_account_id, _learner_vote),
                    ft_transfer(token_address, room.advisor, claim_payout(room))>>,
                  {})

\* ---------------------------------------------------------- revert_token
revert_in_time_inclusive(room) == now - room.start_time <= room.minutes_last

revert_in_time(room) == now - room.start_time < room.minutes_last

\* room.amount_per_minute.mul(room.minutes_last as u128) * 95 / 100
revert_payout(room) ==
    U128Div100(room.amount_per_minute * CastI64ToU128(room.minutes_last) * FeeNumerator)

revert_token(deposit, _room_id, _signature, _signer) ==
    IF ~assert_one_yocto(deposit) THEN Rejected(NotOneYocto)
    ELSE IF ~contains_key(room_list, _room_id) THEN Rejected(RoomNotExisted)
    ELSE LET room == room_list[_room_id]
             product == room.amount_per_minute * CastI64ToU128(room.minutes_last)
         IN  IF ~revert_in_time(room) THEN Rejected(RoomAlreadyEnded)
             ELSE IF overflow_checks
                     /\ U128MulOverflows(room.amount_per_minute,
                                         CastI64ToU128(room.minutes_last))
             THEN Rejected(MulOverflow)
             ELSE IF overflow_checks /\ U128MulOverflows(product, FeeNumerator)
             THEN Rejected(MulOverflow)
             ELSE Accepted(
                      insert(room_list, _room_id, [room EXCEPT !.reverted = TRUE]),
                      <<ft_transfer(token_address, room.learner, revert_payout(room))>>,
                      {})

\* -------------------------------------------- query_staked_amount_callback
Err == [is_err |-> TRUE, value |-> 0]
Ok(v) == [is_err |-> FALSE, value |-> v]
CallResults == {Err} \cup {Ok(v) : v \in 0..MaxStaked}

query_staked_amount_callback_strict(call_result) ==
    IF call_result.is_err THEN [ok |-> FALSE, reason |-> StakingError, value |-> 0]
    ELSE IF ~(call_result.value > verified_amount)
    THEN [ok |-> FALSE, reason |-> NotAnAdvisor, value |-> 0]
    ELSE [ok |-> TRUE, reason |-> "", value |-> call_result.value]

query_staked_amount_callback(call_result) ==
    IF call_result.is_err THEN [ok |-> FALSE, reason |-> StakingError, value |-> 0]
    ELSE IF ~(call_result.value >= verified_amount)
    THEN [ok |-> FALSE, reason |-> NotAnAdvisor, value |-> 0]
    ELSE [ok |-> TRUE, reason |-> "", value |-> call_result.value]

\* ------------------------------------------------------------ the machine
\* the explored part of the store: rooms whose length and escrow stay small
InBounds(rooms) ==
    \A id \in DOMAIN rooms :
        /\ rooms[id].minutes_last <= MaxMinutesLast
        /\ rooms[id].minutes_last >= 0 - MaxMinutesLast
        /\ rooms[id].pending_amount <= MaxPendingAmount
        /\ rooms[id].pending_amount >= 0 - MaxPendingAmount

Init ==
    /\ owner = Owner
    /\ staking_address = StakingAddress
    /\ token_address = TokenAddress
    /\ verified_amount = 1
    /\ room_list = [x \in {} |-> NoCall]
    /\ now = 0
    /\ overflow_checks \in BOOLEAN
    /\ staking_queries = {}
    /\ last = [op |-> "new", ok |-> TRUE]
    /\ calls = <<>>

Tick ==
    /\ now < MaxTime
    /\ now' = now + 1
    /\ UNCHANGED <<config, room_list, staking_queries, last, calls>>

\* ---------------------------------------------------------------- inputs
FtArgsOver(senders, amounts, msgs, advisors, rates, ids, minutes) ==
    [sender_id : senders, amount : amounts, msg : msgs, _advisor : advisors,
     _amount_per_minute : rates, _room_id : ids, _minutes_lasts : minutes]

SomeOf(S) == {Some(v) : v \in S}

\* every argument present, or exactly one of the optional arguments absent
FtArgsFor(ids) ==
    FtArgsOver(Accounts, Amounts, Messages, SomeOf(Advisors), SomeOf(Rates),
               SomeOf(ids), SomeOf(Minutes))
        \cup FtArgsOver({"bob"}, {MaxAmount}, Messages, {None}, {Some(MaxRate)},
                        SomeOf(ids), {Some(MaxMinutes)})
        \cup FtArgsOver({"bob"}, {MaxAmount}, Messages, SomeOf(Advisors), {None},
                        SomeOf(ids), {Some(MaxMinutes)})
        \cup FtArgsOver({"bob"}, {MaxAmount}, Messages, SomeOf(Advisors), {Some(MaxRate)},
                        {None}, {Some(MaxMinutes)})
        \cup FtArgsOver(Accounts, {MaxAmount}, Messages, SomeOf(Advisors), {Some(MaxRate)},
                        SomeOf(ids), {None})

FtArgs == FtArgsFor(RoomIds)

\* a (signature, signer key) pair: malformed, undecodable key, wrong key,
\* wrong subject, and the advisor's and the owner's own signatures
SignedInputs ==
    {<<MalformedSignature, "k1">>,
     <<[wellformed |-> TRUE, key |-> "k1", msg |-> "alice"], UndecodableKey>>,
     <<[wellformed |-> TRUE, key |-> "k1", msg |-> "alice"], "k2">>,
     <<[wellformed |-> TRUE, key |-> "k1", msg |-> "bob"], "k1">>,
     <<[wellformed |-> TRUE, key |-> "k1", msg |-> "alice"], "k1">>,
     <<[wellformed |-> TRUE, key |-> "k1", msg |-> Owner], "k1">>}

LastOf(op, res) == [op |-> op, ok |-> res.ok]

FtOnTransferOn(inputs) ==
    \E a \in inputs :
        LET res == ft_on_transfer(a.sender_id, a.amount, a.msg, a._advisor,
                                  a._amount_per_minute, a._room_id, a._minutes_lasts)
        IN  /\ InBounds(res.rooms)
            /\ room_list' = res.rooms
            /\ calls' = res.calls
            /\ staking_queries' = staking_queries \cup res.queries
            /\ last' = LastOf("ft_on_transfer", res)
            /\ UNCHANGED <<config, now>>

EndRoomOn(ids) ==
    \E deposit \in Deposits, _room_id \in ids, _learner_vote \in Votes,
       signed \in SignedInputs, signer_account_id \in Accounts :
        LET res == end_room(deposit, _room_id, _learner_vote, signed[1], signed[2],
                            signer_account_id)
        IN  /\ room_list' = res.rooms
            /\ calls' = res.calls
            /\ last' = LastOf("end_room", res)
            /\ UNCHANGED <<config, now, staking_queries>>

RevertTokenOn(ids) ==
    \E deposit \in Deposits, _room_id \in ids, signed \in SignedInputs :
        LET res == revert_token(deposit, _room_id, signed[1], signed[2])
        IN  /\ room_list' = res.rooms
            /\ calls' = res.calls
            /\ last' = LastOf("revert_token", res)
            /\ UNCHANGED <<config, now, staking_queries>>

FtOnTransfer == FtOnTransferOn(FtArgs)

EndRoom == EndRoomOn(RoomIds)

RevertToken == RevertTokenOn(RoomIds)

QueryStakedAmountCallback ==
    \E _advisor_id \in staking_queries, call_result \in CallResults :
        LET res == query_staked_amount_callback(call_result)
        IN  /\ staking_queries' = staking_queries \ {_advisor_id}
            /\ calls' = <<>>
            /\ last' = LastOf("query_staked_amount_callback", res)
            /\ UNCHANGED <<config, now, room_list>>

Next ==
    \/ Tick
    \/ FtOnTransfer
    \/ EndRoom
    \/ RevertToken
    \/ QueryStakedAmountCallback

Spec == Init /\ [][Next]_vars

\* Two room ids side by side, each created and extended by one minute at
\* rate one: the states in which a call on one room can disturb another.
TwoRoomIds == {1, 2}

FtArgsRooms ==
    FtArgsOver(Accounts, {MaxAmount}, {"create_room", "extend_room"}, SomeOf(Advisors),
               {Some(1)}, SomeOf(TwoRoomIds), {Some(1)})

FtOnTransferRooms == FtOnTransferOn(FtArgsRooms)

EndRoomRooms == EndRoomOn(TwoRoomIds)

RevertTokenRooms == RevertTokenOn(TwoRoomIds)

NextRooms ==
    \/ Tick
    \/ FtOnTransferRooms
    \/ EndRoomRooms
    \/ RevertTokenRooms
    \/ QueryStakedAmountCallback

SpecRooms == Init /\ [][NextRooms]_vars

\* ------------------------------------------------------------ properties
AllRoomIds == RoomIds \cup TwoRoomIds

AllFtArgs == FtArgsFor(AllRoomIds)

SettleInputs ==
    [deposit : Deposits, _learner_vote : Votes, signed : SignedInputs,
     signer_account_id : Accounts]

FtOnTransferWith(a) ==
    ft_on_transfer(a.sender_id, a.amount, a.msg, a._advisor, a._amount_per_minute,
                   a._room_id, a._minutes_lasts)

EndRoomWith(id, i) ==
    end_room(i.deposit, id, i._learner_vote, i.signed[1], i.signed[2], i.signer_account_id)

RevertTokenWith(id, i) == revert_token(i.deposit, id, i.signed[1], i.signed[2])

Settled(room) == room.claimed \/ room.reverted

Transfers(issued) == {k \in DOMAIN issued : issued[k].method = "ft_transfer"}

\* C1: in every reachable state no room has claimed = true and reverted = true
\* at the same time.
C1_NeverClaimedAndReverted ==
    \A id \in DOMAIN room_list : ~(room_list[id].claimed /\ room_list[id].reverted)

\* C2: once a room is claimed or reverted, every later end_room or revert_token
\* invocation leaves its record unchanged (the call is rejected, so it issues
\* no further transfer).
C2_SettledRoomStaysAsSettled ==
    [][\A id \in DOMAIN room_list :
           (Settled(room_list[id]) /\ last'.op \in {"end_room", "revert_token"})
               => room_list'[id] = room_list[id]]_vars

\* C3: every accepted create_room or extend_room notification raises the room's
\* pending_amount by exactly the `amount` the token service delivered with it, so
\* that pending_amount always equals the tokens delivered for that room id.
C3_PendingEqualsDelivered ==
    \A a \in AllFtArgs :
        LET res == FtOnTransferWith(a) IN
        (a.msg \in {"create_room", "extend_room"} /\ res.ok)
            => LET id == Unwrap(a._room_id)
                   before == IF id \in DOMAIN room_list
                             THEN room_list[id].pending_amount ELSE 0
               IN  res.rooms[id].pending_amount = before + a.amount

C5_NoClaimBeforeSessionEnd ==
    [][\A id \in DOMAIN room_list :
           (~room_list[id].claimed /\ room_list'[id].claimed)
               => now - room_list[id].start_time >= room_list[id].minutes_last]_vars

\* C6: end_room and revert_token called with a signature that does not verify
\* under the supplied signer key (for the room's advisor, resp. the owner) are
\* rejected: the store is unchanged and no outbound call is issued.
C6_BadSignatureRejected ==
    \A id \in DOMAIN room_list : \A i \in SettleInputs :
        LET forAdvisor == verify(i.signed[1], i.signed[2], room_list[id].advisor)
            forOwner == verify(i.signed[1], i.signed[2], owner)
            ended == EndRoomWith(id, i)
            reverted == RevertTokenWith(id, i)
        IN  /\ (forAdvisor.fatal \/ ~forAdvisor.value)
                => (~ended.ok /\ ended.rooms = room_list /\ ended.calls = <<>>)
            /\ (forOwner.fatal \/ ~forOwner.value)
                => (~reverted.ok /\ reverted.rooms = room_list /\ reverted.calls = <<>>)

\* C7: every successful end_room on a room whose pending_amount lies in the
\* bounded range issues exactly one token transfer, to the room's advisor, of
\* floor(pending_amount * 95 / 100), the unique q with
\* 100 q <= 95 pending_amount < 100 (q + 1), and sets claimed; and the payout
\* of pending_amount 1000 is 950.
PayoutRange == 1000

IsFloorOfFee(q, p) ==
    /\ FeeDenominator * q <= FeeNumerator * p
    /\ FeeNumerator * p < FeeDenominator * (q + 1)

PayoutIsFloorOnRange ==
    /\ \A p \in 0..PayoutRange :
           LET paid == claim_payout([pending_amount |-> p])
           IN  paid.q = 0 /\ IsFloorOfFee(paid.r, p)
    /\ claim_payout([pending_amount |-> 1000]) = Plain(950)

C7_ClaimPaysAdvisorFloor95 ==
    /\ \A id \in DOMAIN room_list : \A i \in SettleInputs :
           LET room == room_list[id]
               res == EndRoomWith(id, i)
           IN  (res.ok /\ room.pending_amount \in 0..MaxPendingAmount)
                   => /\ Cardinality(Transfers(res.calls)) = 1
                      /\ \A k \in Transfers(res.calls) :
                             /\ res.calls[k].account = room.advisor
                             /\ res.calls[k].amount.q = 0
                             /\ IsFloorOfFee(res.calls[k].amount.r, room.pending_amount)
                      /\ res.rooms[id].claimed
    /\ PayoutIsFloorOnRange

C7_Witness ==
    /\ last = [op |-> "end_room", ok |-> TRUE]
    /\ \E id \in DOMAIN room_list :
           /\ room_list[id].claimed
           /\ room_list[id].pending_amount = 3
           /\ room_list[id].advisor # room_list[id].learner
           /\ \E k \in Transfers(calls) :
                  calls[k].account = room_list[id].advisor /\ calls[k].amount = Plain(2)

\* C8: an extend_room notification for a room id that does not exist is
\* rejected; an extension by the learner of an existing, unsettled room with
\* non-negative minutes is accepted; and every accepted extension with rate r
\* and minutes m adds exactly r * m to pending_amount (u128 arithmetic) and m
\* to minutes_last, and changes no other field of that room and no other room.
C8_ExtendAddsExactly ==
    \A a \in AllFtArgs :
        (a.msg = "extend_room" /\ a._room_id # None /\ a._amount_per_minute # None)
            => LET id == Unwrap(a._room_id)
                   r == Unwrap(a._amount_per_minute)
                   res == FtOnTransferWith(a)
               IN  IF id \notin DOMAIN room_list
                   THEN ~res.ok /\ res.rooms = room_list
                   ELSE LET old == room_list[id] IN
                        /\ (/\ ~Settled(old)
                            /\ a.sender_id = old.learner
                            /\ a._minutes_lasts # None
                            /\ Unwrap(a._minutes_lasts) >= 0
                            /\ old.pending_amount >= 0) => res.ok
                        /\ res.ok
                            => LET m == Unwrap(a._minutes_lasts)
                                   new == res.rooms[id]
                               IN  /\ new.pending_amount = old.pending_amount + r * m
                                   /\ new.minutes_last = old.minutes_last + m
                                   /\ new.advisor = old.advisor
                                   /\ new.learner = old.learner
                                   /\ new.start_time = old.start_time
                                   /\ new.amount_per_minute = old.amount_per_minute
                                   /\ new.claimed = old.claimed
                                   /\ new.reverted = old.reverted
                                   /\ DOMAIN res.rooms = DOMAIN room_list
                                   /\ \A other \in DOMAIN room_list \ {id} :
                                          res.rooms[other] = room_list[other]

C8_Witness ==
    /\ last = [op |-> "ft_on_transfer", ok |-> TRUE]
    /\ DOMAIN room_list = TwoRoomIds
    /\ \E id \in DOMAIN room_list :
           /\ ~Settled(room_list[id])
           /\ room_list[id].minutes_last = 2
           /\ room_list[id].pending_amount = 2
           /\ \A other \in DOMAIN room_list \ {id} : room_list[other].minutes_last = 1

\* C9: an extend_room notification on a room whose claimed or reverted flag is
\* true is rejected and leaves its minutes_last and pending_amount unchanged.
C9_NoExtensionAfterSettlement ==
    \A id \in DOMAIN room_list :
        Settled(room_list[id])
            => \A a \in AllFtArgs :
                   (a.msg = "extend_room" /\ a._room_id = Some(id))
                       => LET res == FtOnTransferWith(a)
                          IN  /\ ~res.ok
                              /\ res.rooms[id].minutes_last = room_list[id].minutes_last
                              /\ res.rooms[id].pending_amount = room_list[id].pending_amount

\* C10: an end_room, revert_token or extend_room invocation that violates a
\* precondition (room not found, already claimed, already reverted, room already
\* ended, no one-yocto attachment, sender not the room's learner) is rejected,
\* leaves the whole room store unchanged and issues no outbound call.
RejectedCleanly(res) ==
    /\ ~res.ok
    /\ res.rooms = room_list
    /\ res.calls = <<>>
    /\ res.queries = {}

C10_RejectionChangesNothing ==
    /\ \A id \in AllRoomIds : \A i \in SettleInputs :
           /\ (\/ i.deposit # ONE_YOCTO
               \/ id \notin DOMAIN room_list
               \/ room_list[id].claimed
               \/ room_list[id].reverted) => RejectedCleanly(EndRoomWith(id, i))
           /\ (\/ i.deposit # ONE_YOCTO
               \/ id \notin DOMAIN room_list
               \/ now - room_list[id].start_time >= room_list[id].minutes_last)
                  => RejectedCleanly(RevertTokenWith(id, i))
           /\ ~EndRoomWith(id, i).ok => RejectedCleanly(EndRoomWith(id, i))
           /\ ~RevertTokenWith(id, i).ok => RejectedCleanly(RevertTokenWith(id, i))
    /\ \A a \in AllFtArgs :
           LET res == FtOnTransferWith(a) IN
           /\ (/\ a.msg = "extend_room"
               /\ a._room_id # None
               /\ \/ Unwrap(a._room_id) \notin DOMAIN room_list
                  \/ a.sender_id # room_list[Unwrap(a._room_id)].learner)
                  => RejectedCleanly(res)
           /\ ~res.ok => RejectedCleanly(res)
    /\ ~last.ok => calls = <<>>

C10_Witness ==
    /\ last = [op |-> "ft_on_transfer", ok |-> FALSE]
    /\ calls = <<>>
    /\ DOMAIN room_list = TwoRoomIds
    /\ \E id \in DOMAIN room_list : room_list[id].claimed
    /\ \E id \in DOMAIN room_list : room_list[id].reverted /\ ~room_list[id].claimed

\* C11: query_staked_amount_callback has exactly three outcomes: a failed call
\* result aborts with the communication-error reason; a successful result below
\* verified_amount aborts with the distinct not-an-advisor reason; a successful
\* result of at least verified_amount (equality included) returns that amount.
\* No callback step changes the room store.
C11_CallbackOutcomes ==
    /\ StakingError # NotAnAdvisor
    /\ \A call_result \in CallResults :
           LET res == query_staked_amount_callback(call_result) IN
           IF call_result.is_err
           THEN ~res.ok /\ res.reason = StakingError
           ELSE IF call_result.value < verified_amount
           THEN ~res.ok /\ res.reason = NotAnAdvisor
           ELSE res.ok /\ res.value = call_result.value

C11_CallbackThreeOutcomes ==
    /\ []C11_CallbackOutcomes
    /\ [][last'.op = "query_staked_amount_callback" => room_list' = room_list]_vars

C11_Witness ==
    /\ last = [op |-> "query_staked_amount_callback", ok |-> FALSE]
    /\ staking_queries = {}
    /\ DOMAIN room_list # {}

\* C12: settlement is irreversible and rooms are never deleted: a room that
\* exists still exists after every step, and a claimed (resp. reverted) flag that
\* is true stays true after every step, further create_room notifications with
\* the same room id included.
C12_SettlementIrreversible ==
    [][\A id \in DOMAIN room_list :
           /\ id \in DOMAIN room_list'
           /\ room_list[id].claimed => room_list'[id].claimed
           /\ room_list[id].reverted => room_list'[id].reverted]_vars

\* C13: start_time, amount_per_minute, advisor and learner of a room are fixed
\* by its first creation: no later create_room, extend_room, end_room or
\* revert_token step changes any of them.
C13_CreationFieldsImmutable ==
    [][\A id \in DOMAIN room_list :
           /\ id \in DOMAIN room_list'
           /\ room_list'[id].start_time = room_list[id].start_time
           /\ room_list'[id].amount_per_minute = room_list[id].amount_per_minute
           /\ room_list'[id].advisor = room_list[id].advisor
           /\ room_list'[id].learner = room_list[id].learner]_vars

\* C14: minutes_last never decreases across an accepted extend_room
\* notification, whatever signed minutes argument it carries.
C14_MinutesLastNeverDecreases ==
    \A id \in DOMAIN room_list : \A a \in AllFtArgs :
        (a.msg = "extend_room" /\ a._room_id = Some(id))
            => LET res == FtOnTransferWith(a)
               IN  res.ok => res.rooms[id].minutes_last >= room_list[id].minutes_last

\* C15: every room satisfies pending_amount = amount_per_minute * minutes_last,
\* so the refund of revert_token, floor(amount_per_minute * minutes_last * 95 / 100),
\* equals floor(pending_amount * 95 / 100) and does not exceed pending_amount.
\* a quotient by 100 compared with a u128 held as its centred representative
QuotientAtMost(quot, x) == x < 0 \/ (quot.q = 0 /\ quot.r <= x)

C15_PendingIsRateTimesMinutes ==
    \A id \in DOMAIN room_list :
        LET room == room_list[id] IN
        /\ room.pending_amount = room.amount_per_minute * room.minutes_last
        /\ revert_payout(room) = claim_payout(room)
        /\ QuotientAtMost(revert_payout(room), room.pending_amount)

\* C16: room creation is independent of the staking check: an accepted
\* create_room notification inserts the unsettled room record in the same
\* invocation that issues the staking query; however the continuation ends, its
\* step neither removes nor alters any room record; and end_room with the
\* one-yocto attachment is accepted on every unsettled room (escrow within
\* MaxPendingAmount) whether or not a staking query is outstanding or has failed.
C16_CreateInsertsAndQueries ==
    /\ \A a \in AllFtArgs :
           LET res == FtOnTransferWith(a) IN
           (a.msg = "create_room" /\ res.ok)
               => LET id == Unwrap(a._room_id) IN
                  /\ id \in DOMAIN res.rooms
                  /\ res.rooms[id].advisor = Unwrap(a._advisor)
                  /\ res.rooms[id].learner = a.sender_id
                  /\ ~Settled(res.rooms[id])
                  /\ \E k \in DOMAIN res.calls :
                         /\ res.calls[k].method = "get_staked_amount"
                         /\ res.calls[k].account = Unwrap(a._advisor)
                  /\ res.queries = {Unwrap(a._advisor)}
    /\ \A id \in DOMAIN room_list : \A i \in SettleInputs :
           (/\ i.deposit = ONE_YOCTO
            /\ ~Settled(room_list[id])
            /\ room_list[id].pending_amount \in 0..MaxPendingAmount)
               => /\ EndRoomWith(id, i).ok
                  /\ EndRoomWith(id, i).rooms[id].claimed

C16_CreationIndependentOfStaking ==
    /\ []C16_CreateInsertsAndQueries
    /\ [][last'.op = "query_staked_amount_callback"
              => \A id \in DOMAIN room_list :
                     id \in DOMAIN room_list' /\ room_list'[id] = room_list[id]]_vars

C16_Witness ==
    /\ last = [op |-> "query_staked_amount_callback", ok |-> FALSE]
    /\ \E id \in DOMAIN room_list :
           /\ room_list[id].advisor \notin staking_queries
           /\ ~Settled(room_list[id])
           /\ room_list[id].pending_amount > 0
           /\ \E i \in SettleInputs : EndRoomWith(id, i).ok

\* C17: every staking-service call issued (get_staked_amount on create_room,
\* update_apr on a successful end_room) is addressed to the configured staking
\* address and names the advisor of the room concerned, update_apr carrying the
\* learner's vote; every token transfer is addressed to the token address.
C17_StakingCallsGoToStaking ==
    \A k \in DOMAIN calls :
        /\ calls[k].method \in {"get_staked_amount", "update_apr"}
               => /\ calls[k].contract = staking_address
                  /\ \E id \in DOMAIN room_list : calls[k].account = room_list[id].advisor
        /\ calls[k].method = "update_apr" => calls[k].vote \in Votes
        /\ calls[k].method = "ft_transfer" => calls[k].contract = token_address

\* C18: the revert time gate covers the whole committed session: with
\* start_time and now in seconds and minutes_last in minutes, revert_token with
\* the one-yocto attachment on an existing room is accepted while fewer than
\* 60 * minutes_last seconds have elapsed since start_time, and rejected from
\* then on.
C18_RevertGateInMinutes ==
    \A id \in DOMAIN room_list : \A i \in SettleInputs :
        i.deposit = ONE_YOCTO =>
            LET room == room_list[id]
                res == RevertTokenWith(id, i)
            IN  IF now - room.start_time < 60 * room.minutes_last
                THEN res.ok
                ELSE ~res.ok /\ res.rooms = room_list

\* C19: only the room's learner can extend it: for every existing room and
\* every sender other than its stored learner, an extend_room notification is
\* rejected (with the invalid-learner reason when the rate argument is present)
\* and leaves minutes_last, pending_amount and the whole store unchanged.
C19_OnlyLearnerExtends ==
    \A id \in DOMAIN room_list : \A a \in AllFtArgs :
        (/\ a.msg = "extend_room"
         /\ a._room_id = Some(id)
         /\ a.sender_id # room_list[id].learner)
            => LET res == FtOnTransferWith(a) IN
               /\ ~res.ok
               /\ a._amount_per_minute # None => res.reason = InvalidLearner
               /\ res.rooms[id].minutes_last = room_list[id].minutes_last
               /\ res.rooms[id].pending_amount = room_list[id].pending_amount
               /\ res.rooms = room_list

C19_Witness ==
    /\ last = [op |-> "ft_on_transfer", ok |-> FALSE]
    /\ DOMAIN room_list = TwoRoomIds
    /\ \A id \in DOMAIN room_list :
           /\ room_list[id].learner = "bob"
           /\ room_list[id].advisor = "alice"
           /\ ~Settled(room_list[id])

\* C20: escrow can never get stuck: in every reachable state every existing
\* room with claimed = false and reverted = false has a settlement invocation
\* (end_room or revert_token with the one-yocto attachment) that is accepted.
C20_EscrowNeverStuck ==
    \A id \in DOMAIN room_list :
        ~Settled(room_list[id])
            => \E i \in SettleInputs :
                   /\ i.deposit = ONE_YOCTO
                   /\ EndRoomWith(id, i).ok \/ RevertTokenWith(id, i).ok
====
